---- MODULE Spec2Model ----
(***************************************************************************)
(* A model of the adaptive-routing backend: the IP-tiered rate limiter of  *)
(* core/middleware.py and the route / insight pipeline of routing/views.py,*)
(* routing/services.py, routing/utils.py and ai_services/services.py.      *)
(***************************************************************************)
EXTENDS Integers, Sequences, FiniteSets, TLC

(***************************************************************************)
(* Bounds of the model.                                                    *)
(***************************************************************************)
\* number of concurrently scheduled request workers
NumWorkers == 2
\* seconds of wall-clock time that pass in one Tick
TickSeconds == 30
\* rejected requests recorded per window before no new request is started
MaxRejected == 2

(***************************************************************************)
(* Program constants of the rate limiter.                                  *)
(***************************************************************************)
ZimLimit == 50
GlobalLimit == 100
WindowSeconds == 60

Workers == 1..NumWorkers

(***************************************************************************)
(* IP texts.  An address text is [pad, o]: pad = 1 when the text carries   *)
(* surrounding whitespace, o the dotted fields as numbers.  o = <<>> is the *)
(* absent (None) address.                                                  *)
(***************************************************************************)
Text(o) == [pad |-> 0, o |-> o]
Padded(o) == [pad |-> 1, o |-> o]

\* str.strip()
Strip(t) == [t EXCEPT !.pad = 0]

\* ipaddress.ip_address(ip): TRUE when it parses, FALSE when it raises ValueError
ParsesAsIP(t) ==
    /\ t.pad = 0
    /\ Len(t.o) = 4
    /\ \A i \in 1..4 : t.o[i] \in 0..255

\* ranges with 105.0.0.0/8 in place of 105.112.0.0/12, used to test the claims
\* about the tiers
InZimRangesWide(o) ==
    \/ (o[1] = 154 /\ o[2] = 72)
    \/ (o[1] = 197 /\ o[2] = 211)
    \/ o[1] = 105

\* client_ip_obj in ip_network(...) for the three ZIMBABWE_IP_RANGES
InZimRanges(o) ==
    \/ (o[1] = 154 /\ o[2] = 72)                      \* 154.72.0.0/16
    \/ (o[1] = 197 /\ o[2] = 211)                     \* 197.211.0.0/16
    \/ (o[1] = 105 /\ o[2] \in 112..127)              \* 105.112.0.0/12

\* is_zim_ip after the try/except of process_request
IsZimIP(t) == ParsesAsIP(t) /\ InZimRanges(t.o)

\* a client IP taken from REMOTE_ADDR whatever the headers, used to test the
\* claims about X-Forwarded-For
get_client_ip_peer(meta) ==
    meta.remote

\* get_client_ip: first X-Forwarded-For entry, stripped, when the header is
\* non-empty; REMOTE_ADDR otherwise
get_client_ip(meta) ==
    IF Len(meta.xff) > 0 THEN Strip(meta.xff[1]) ELSE meta.remote

\* the cache key of a request: f"rate_limit_zim:{ip}" or f"rate_limit_global:{ip}"
RateKey(t) == [tier |-> IF IsZimIP(t) THEN "zim" ELSE "global", ip |-> t]

\* the threshold compared with count under that key
Threshold(k) == IF k.tier = "zim" THEN ZimLimit ELSE GlobalLimit

Meta(xff, remote) == [xff |-> xff, remote |-> remote]

ZimA == Text(<<154, 72, 0, 1>>)
ZimB == Text(<<105, 120, 3, 4>>)
NearZim == Text(<<105, 128, 0, 1>>)
World == Text(<<8, 8, 8, 8>>)
Absent == Text(<<>>)
BadOctet == Text(<<256, 1, 1, 1>>)

\* the request metas the model draws from
AllMetas ==
    { Meta(<<>>, ZimA), Meta(<<>>, World), Meta(<<>>, Absent),
      Meta(<<>>, NearZim), Meta(<<>>, BadOctet),
      Meta(<<ZimB, Padded(World.o)>>, World),
      Meta(<<Padded(World.o)>>, ZimA),
      Meta(<<NearZim, ZimA>>, World) }

Keys == { RateKey(get_client_ip(m)) : m \in AllMetas }

NoEntry == [present |-> FALSE, count |-> 0, ttl |-> 0]

VARIABLES
    metas,      \* the request metas clients send in this run
    cache,      \* the shared counter store: key -> [present, count, ttl]
    pc,         \* per worker: position inside process_request
    wmeta,      \* per worker: the request being handled
    sawMissing, \* per worker: get_or_set's first get found no entry
    resp,       \* per worker: what the last process_request returned
    admitted,   \* per key: requests admitted in the key's current window
    rejected,   \* per key: requests answered 429 in the key's current window
    windows,    \* per key: windows initialised since the key was last absent
    prevFull,   \* per key: the window before this one ended full, with rejections
    lastTouch,  \* per key: seconds into the window at the last admit or 429
    op,         \* the operation of the route pipeline this run calls
    rin,        \* its inputs: the request and what the providers will answer
    rout,       \* its outcome
    rdone       \* whether it has run

rlvars == <<metas, cache, pc, wmeta, sawMissing, resp, admitted, rejected,
            windows, prevFull, lastTouch>>

rtvars == <<op, rin, rout, rdone>>

vars == <<rlvars, rtvars>>

KeyOfWorker(w) == RateKey(get_client_ip(wmeta[w]))

Idle == \A w \in Workers : pc[w] = "idle"

(***************************************************************************)
(* The counter store (django.core.cache), as process_request uses it.      *)
(***************************************************************************)
\* cache.get(key, default)
CacheGet(k, default) == IF cache[k].present THEN cache[k].count ELSE default

\* an add that starts the counter at 1, used to test the claims about a fresh window
CacheAddFromOne(k) ==
    IF cache[k].present THEN cache
    ELSE [cache EXCEPT ![k] = [present |-> TRUE, count |-> 1, ttl |-> WindowSeconds]]

\* a set in place of the add, which starts the counter again, used to test
\* the claims about initialization
CacheSetAlways(k) ==
    [cache EXCEPT ![k] = [present |-> TRUE, count |-> 0, ttl |-> WindowSeconds]]

\* the store after cache.add(key, 0, 60): sets the entry only when absent
CacheAdd(k) ==
    IF cache[k].present THEN cache
    ELSE [cache EXCEPT ![k] = [present |-> TRUE, count |-> 0, ttl |-> WindowSeconds]]

\* an increment that stores the value again with a new expiry, used to test
\* the claims about the window
CacheIncrTouch(k) ==
    [cache EXCEPT ![k].count = @ + 1, ![k].ttl = WindowSeconds]

\* the store after a successful cache.incr(key): count + 1, expiry untouched
CacheIncr(k) == [cache EXCEPT ![k].count = @ + 1]

\* an off-by-one comparison, used to test the claims about the threshold
OverLimitStrict(k, count) == count > Threshold(k)

\* the comparison of process_request: count >= 50 / count >= 100
OverLimit(k, count) == count >= Threshold(k)

(***************************************************************************)
(* process_request, one action per store operation.                        *)
(***************************************************************************)
\* a 429 response is returned
Reject(w, k) ==
    /\ pc' = [pc EXCEPT ![w] = "idle"]
    /\ resp' = [resp EXCEPT ![w] = "429"]
    /\ rejected' = [rejected EXCEPT ![k] = @ + 1]
    /\ lastTouch' = [lastTouch EXCEPT ![k] = WindowSeconds - cache[k].ttl]

\* the check passed: cache.incr is next
PassCheck(w) ==
    /\ pc' = [pc EXCEPT ![w] = "incr"]
    /\ resp' = [resp EXCEPT ![w] = "none"]
    /\ UNCHANGED <<rejected, lastTouch>>

\* lines 17-37 / 46-48: headers, classification, and the first get of get_or_set
Begin(w, m) ==
    LET k == RateKey(get_client_ip(m)) IN
    /\ pc[w] = "idle"
    /\ m \in metas
    /\ rejected[k] < MaxRejected
    /\ wmeta' = [wmeta EXCEPT ![w] = m]
    /\ sawMissing' = [sawMissing EXCEPT ![w] = ~cache[k].present]
    /\ IF cache[k].present
       THEN IF OverLimit(k, cache[k].count) THEN Reject(w, k) ELSE PassCheck(w)
       ELSE /\ pc' = [pc EXCEPT ![w] = "add"]
            /\ resp' = [resp EXCEPT ![w] = "none"]
            /\ UNCHANGED <<rejected, lastTouch>>
    /\ UNCHANGED <<metas, cache, admitted, windows, prevFull>>

\* get_or_set: cache.add(key, 0, 60) after a miss
Add(w) ==
    LET k == KeyOfWorker(w) IN
    /\ pc[w] = "add"
    /\ cache' = CacheAdd(k)
    /\ pc' = [pc EXCEPT ![w] = "reget"]
    /\ IF cache[k].present
       THEN UNCHANGED <<admitted, rejected, windows, lastTouch>>
       ELSE /\ admitted' = [admitted EXCEPT ![k] = 0]
            /\ lastTouch' = [lastTouch EXCEPT ![k] = 0]
            /\ rejected' = [rejected EXCEPT ![k] = 0]
            /\ windows' = [windows EXCEPT ![k] = @ + 1]
    /\ UNCHANGED <<metas, wmeta, sawMissing, resp, prevFull>>

\* get_or_set: the second get, with default 0, then the comparison
Reget(w) ==
    LET k == KeyOfWorker(w) IN
    /\ pc[w] = "reget"
    /\ IF OverLimit(k, CacheGet(k, 0)) THEN Reject(w, k) ELSE PassCheck(w)
    /\ UNCHANGED <<metas, cache, wmeta, sawMissing, admitted, windows, prevFull>>

\* lines 43 / 54: cache.incr(key), which raises ValueError on a missing key;
\* then return None
Incr(w) ==
    LET k == KeyOfWorker(w) IN
    /\ pc[w] = "incr"
    /\ pc' = [pc EXCEPT ![w] = "idle"]
    /\ IF cache[k].present
       THEN /\ cache' = CacheIncr(k)
            /\ resp' = [resp EXCEPT ![w] = "admit"]
            /\ admitted' = [admitted EXCEPT ![k] = @ + 1]
            /\ lastTouch' = [lastTouch EXCEPT ![k] = WindowSeconds - cache[k].ttl]
       ELSE /\ resp' = [resp EXCEPT ![w] = "raise"]
            /\ UNCHANGED <<cache, admitted, lastTouch>>
    /\ UNCHANGED <<metas, wmeta, sawMissing, rejected, windows, prevFull>>

\* the store fails (connection lost) during the operation the worker is at;
\* process_request has no handler, so the exception leaves it
StoreFault(w) ==
    /\ pc[w] \in {"add", "reget", "incr"}
    /\ pc' = [pc EXCEPT ![w] = "idle"]
    /\ resp' = [resp EXCEPT ![w] = "raise"]
    /\ UNCHANGED <<metas, cache, wmeta, sawMissing, admitted, rejected, windows,
                   prevFull, lastTouch>>

\* the store entry of k after TickSeconds more seconds
Aged(k) ==
    IF cache[k].present /\ cache[k].ttl > TickSeconds
    THEN [cache[k] EXCEPT !.ttl = @ - TickSeconds]
    ELSE NoEntry

\* time passes; entries whose 60 seconds are over are evicted
Tick ==
    /\ \E k \in Keys : cache[k].present
    /\ cache' = [k \in Keys |-> Aged(k)]
    /\ prevFull' = [k \in Keys |->
                      IF cache[k].present /\ ~Aged(k).present
                      THEN cache[k].count >= Threshold(k) /\ rejected[k] > 0
                      ELSE prevFull[k]]
    /\ windows' = [k \in Keys |->
                      IF cache[k].present /\ ~Aged(k).present THEN 0 ELSE windows[k]]
    /\ lastTouch' = [k \in Keys |-> IF Aged(k).present THEN lastTouch[k] ELSE 0]
    /\ UNCHANGED <<metas, pc, wmeta, sawMissing, resp, admitted, rejected>>

\* the route pipeline at rest
RouteIdle == op = "none" /\ rin = <<>> /\ rout = <<>> /\ rdone = TRUE

RLInit(M) ==
    /\ metas \in M
    /\ cache = [k \in Keys |-> NoEntry]
    /\ pc = [w \in Workers |-> "idle"]
    /\ wmeta = [w \in Workers |-> Meta(<<>>, Absent)]
    /\ sawMissing = [w \in Workers |-> FALSE]
    /\ resp = [w \in Workers |-> "none"]
    /\ admitted = [k \in Keys |-> 0]
    /\ rejected = [k \in Keys |-> 0]
    /\ windows = [k \in Keys |-> 0]
    /\ prevFull = [k \in Keys |-> FALSE]
    /\ lastTouch = [k \in Keys |-> 0]

(***************************************************************************)
(* Spec: concurrent workers, time passing at any point, store faults.      *)
(***************************************************************************)
ConcurrentMetas ==
    { {Meta(<<>>, ZimA)}, {Meta(<<>>, World)}, {Meta(<<>>, Absent)} }

Init == RLInit(ConcurrentMetas) /\ RouteIdle

Next ==
    \/ \E w \in Workers, m \in AllMetas : Begin(w, m) /\ UNCHANGED rtvars
    \/ \E w \in Workers : Add(w) /\ UNCHANGED rtvars
    \/ \E w \in Workers : Reget(w) /\ UNCHANGED rtvars
    \/ \E w \in Workers : Incr(w) /\ UNCHANGED rtvars
    \/ \E w \in Workers : StoreFault(w) /\ UNCHANGED rtvars
    \/ Tick /\ UNCHANGED rtvars

Spec == Init /\ [][Next]_vars

(***************************************************************************)
(* SpecSeq: requests issued one after another against a working store; a   *)
(* request is short against the clock, so time passes between requests.    *)
(***************************************************************************)
SeqMetas ==
    { {m} : m \in AllMetas }

SeqInit == RLInit(SeqMetas) /\ RouteIdle

SeqNext ==
    \/ \E w \in Workers, m \in AllMetas : Idle /\ Begin(w, m) /\ UNCHANGED rtvars
    \/ \E w \in Workers : Add(w) /\ UNCHANGED rtvars
    \/ \E w \in Workers : Reget(w) /\ UNCHANGED rtvars
    \/ \E w \in Workers : Incr(w) /\ UNCHANGED rtvars
    \/ Idle /\ Tick /\ UNCHANGED rtvars

SpecSeq == SeqInit /\ [][SeqNext]_vars

(***************************************************************************)
(* SpecPeer: one peer address sends requests one after another that carry  *)
(* different X-Forwarded-For headers, or none, all within one minute.      *)
(***************************************************************************)
PeerMetas ==
    { {Meta(<<ZimB, Padded(World.o)>>, World), Meta(<<NearZim, ZimA>>, World)},
      {Meta(<<ZimB, Padded(World.o)>>, World), Meta(<<>>, World)} }

PeerInit == RLInit(PeerMetas) /\ RouteIdle

PeerNext ==
    \/ \E w \in Workers, m \in AllMetas : Idle /\ Begin(w, m) /\ UNCHANGED rtvars
    \/ \E w \in Workers : Add(w) /\ UNCHANGED rtvars
    \/ \E w \in Workers : Reget(w) /\ UNCHANGED rtvars
    \/ \E w \in Workers : Incr(w) /\ UNCHANGED rtvars

SpecPeer == PeerInit /\ [][PeerNext]_vars

(***************************************************************************)
(* The route pipeline.  Coordinates are whole thousandths of a degree.     *)
(* A Python value that may be of several types is a record [t, ...] whose  *)
(* t names the type; an operation that may raise returns a record whose    *)
(* exc field tells whether it raised.                                      *)
(***************************************************************************)
\* the largest offset anonymize_location adds, in thousandths of a degree
DegreeOffsetMilli == 1
\* the longest provider response, in routes
MaxRoutes == 2

PyNone == [t |-> "none"]
PyNum(n) == [t |-> "num", n |-> n]
PyStr(s) == [t |-> "str", s |-> s]

\* django.contrib.gis.geos.Point(x, y): x is the longitude, y the latitude
Point(x, y) == [x |-> x, y |-> y]

\* a piece of a string between commas: a number's text, or other text
NumPart(n) == [num |-> TRUE, v |-> n]
WordPart == [num |-> FALSE, v |-> 0]
\* a str, as the pieces str.split(',') gives
StrOf(parts) == [t |-> "str", parts |-> parts]

\* f"{point.y},{point.x}": the 'lat,lng' text of a point
LatLngStr(p) == StrOf(<<NumPart(p.y), NumPart(p.x)>>)

(***************************************************************************)
(* routing/serializers.py                                                  *)
(***************************************************************************)
\* PointField.to_internal_value: the Point of a 'lat,lng' string, or
\* ValidationError (exc)
to_internal_value(data) ==
    IF data.t # "str" THEN [exc |-> TRUE, point |-> Point(0, 0)]
    ELSE IF Len(data.parts) # 2 THEN [exc |-> TRUE, point |-> Point(0, 0)]
    ELSE IF ~data.parts[1].num \/ ~data.parts[2].num
         THEN [exc |-> TRUE, point |-> Point(0, 0)]
    ELSE [exc |-> FALSE, point |-> Point(data.parts[2].v, data.parts[1].v)]

\* CharField(max_length=20, required=False) on mode
ModeValid(mode) == mode \in {"absent", "driving", "walking", "transit"}

\* RouteRequestSerializer.is_valid(): every field validates; origin and
\* destination are required
is_valid(data) ==
    /\ ~to_internal_value(data.origin).exc
    /\ ~to_internal_value(data.destination).exc
    /\ ModeValid(data.mode)

(***************************************************************************)
(* routing/utils.py                                                        *)
(***************************************************************************)
\* an anonymizer that moves the point it was given, used to test the claims
\* about the caller's points
anonymize_in_place(point, off) ==
    [ret |-> Point(point.x + off.dx, point.y + off.dy),
     arg |-> Point(point.x + off.dx, point.y + off.dy)]

\* anonymize_location(point): a new Point offset by the drawn lat/lon offsets;
\* ret is the returned point, arg the argument object after the call
anonymize_location(point, off) ==
    [ret |-> Point(point.x + off.dx, point.y + off.dy), arg |-> point]

\* the offsets random.uniform(-degree_offset, degree_offset) can draw
Offsets ==
    [dy : (0 - DegreeOffsetMilli)..DegreeOffsetMilli,
     dx : (0 - DegreeOffsetMilli)..DegreeOffsetMilli]

(***************************************************************************)
(* routing/services.py                                                     *)
(***************************************************************************)
\* a _point_to_str that jitters whatever the setting says, used to test the
\* claims about privacy mode
point_to_str_always(point, anonymize, off) ==
    LET a == anonymize_location(point, off) IN
    [str |-> LatLngStr(a.ret), arg |-> a.arg]

\* GoogleMapsService._point_to_str: str is the text returned, arg the argument
\* object after the call
point_to_str(point, anonymize, off) ==
    IF anonymize
    THEN LET a == anonymize_location(point, off) IN
         [str |-> LatLngStr(a.ret), arg |-> a.arg]
    ELSE [str |-> LatLngStr(point), arg |-> point]

\* a {'text', 'value'} entry of a leg: present (ok), present without a
\* 'value' (textonly), missing (absent), or null
Measure(value, text) == [k |-> "ok", value |-> value, text |-> PyStr(text)]
TextOnly(text) == [k |-> "textonly", value |-> 0, text |-> PyStr(text)]
NoMeasure == [k |-> "absent", value |-> 0, text |-> PyNone]
NullMeasure == [k |-> "null", value |-> 0, text |-> PyNone]

\* d.get('value', default) of leg.get(name, {})
ValueOr(m, default) == IF m.k = "ok" THEN m.value ELSE default
\* d.get('text', default) of leg.get(name, {})
TextOr(m, default) == IF m.k \in {"ok", "textonly"} THEN m.text ELSE default

\* one step of a leg, as line 94-99 maps it
StepSummary(step) ==
    [distance |-> step.dist, duration |-> step.dur,
     instruction |-> step.html, polyline |-> step.points]

\* a summary that prefers the base duration to the traffic-adjusted one, used
\* to test the claims about the duration
RouteSummaryBaseFirst(route) ==
    LET leg == route.legs[1] IN
    [distance |-> TextOr(leg.distance, PyNone),
     distance_value |-> ValueOr(leg.distance, 0),
     duration |-> TextOr(leg.duration, TextOr(leg.traffic, PyNone)),
     duration_value |-> ValueOr(leg.duration, ValueOr(leg.traffic, 0)),
     polyline |-> route.polyline,
     steps |-> [i \in 1..Len(leg.steps) |-> StepSummary(leg.steps[i])]]

\* the summary lines 84-101 build from a route with a leg
RouteSummary(route) ==
    LET leg == route.legs[1] IN
    [distance |-> TextOr(leg.distance, PyNone),
     distance_value |-> ValueOr(leg.distance, 0),
     duration |-> TextOr(leg.traffic, TextOr(leg.duration, PyNone)),
     duration_value |-> ValueOr(leg.traffic, ValueOr(leg.duration, 0)),
     polyline |-> route.polyline,
     steps |-> [i \in 1..Len(leg.steps) |-> StepSummary(leg.steps[i])]]

\* building the summary raises AttributeError: a null where a dict is read
SummaryRaises(route) ==
    LET leg == route.legs[1] IN
    \/ leg.distance.k = "null"
    \/ leg.duration.k = "null"
    \/ leg.traffic.k = "null"

\* GoogleMapsService._process_routes on routes i.. of the response, acc the
\* summaries so far: the routes list, or exc
RECURSIVE ProcessFrom(_, _, _)
ProcessFrom(response, i, acc) ==
    IF i > Len(response) THEN [exc |-> FALSE, routes |-> acc]
    ELSE IF Len(response[i].legs) = 0 THEN ProcessFrom(response, i + 1, acc)
    ELSE IF SummaryRaises(response[i]) THEN [exc |-> TRUE, routes |-> <<>>]
    ELSE ProcessFrom(response, i + 1, Append(acc, RouteSummary(response[i])))

process_routes(response) == ProcessFrom(response, 1, <<>>)

\* the 'avoid' parameter: None is left out of params
AvoidParam(avoid) == IF avoid = <<>> THEN PyNone ELSE [t |-> "list", l |-> avoid]

\* params of the directions request, lines 20-39
DirectionsParams(origin_str, dest_str, mode, avoid) ==
    [origin |-> origin_str, destination |-> dest_str, mode |-> mode,
     departure_time |-> "now", traffic_model |-> "best_guess",
     alternatives |-> TRUE, avoid |-> AvoidParam(avoid)]

\* a get_route whose handler does not cover _process_routes, used to test the
\* claims about its failures
get_route_unguarded(origin, destination, mode, avoid, env) ==
    LET o == point_to_str(origin, env.anonymize, env.off1)
        d == point_to_str(destination, env.anonymize, env.off2)
        call == DirectionsParams(o.str, d.str, mode, avoid)
        p == IF env.directions.k = "ok"
             THEN process_routes(env.directions.routes)
             ELSE [exc |-> FALSE, routes |-> <<>>]
    IN [exc |-> p.exc, routes |-> p.routes, outbound |-> <<call>>,
        origin |-> o.arg, destination |-> d.arg]

\* GoogleMapsService.get_route: routes is the list returned, outbound the
\* directions requests sent, origin and destination the caller's point objects
\* after the call, exc whether an exception left the method
get_route(origin, destination, mode, avoid, env) ==
    LET o == point_to_str(origin, env.anonymize, env.off1)
        d == point_to_str(destination, env.anonymize, env.off2)
        call == DirectionsParams(o.str, d.str, mode, avoid)
        p == IF env.directions.k = "ok"
             THEN process_routes(env.directions.routes)
             ELSE [exc |-> TRUE, routes |-> <<>>]
    IN [exc |-> FALSE,
        routes |-> IF p.exc THEN <<>> ELSE p.routes,
        outbound |-> <<call>>,
        origin |-> o.arg, destination |-> d.arg]

(***************************************************************************)
(* Insight generation: routing/views.py and ai_services/services.py.       *)
(* A generated text is [pad, body]: pad = 1 when whitespace surrounds it.  *)
(***************************************************************************)
GenText(pad, body) == [pad |-> pad, body |-> body]
PyText(txt) == [t |-> "str", text |-> txt]
PyList(l) == [t |-> "list", l |-> l]
PyDict(d) == [t |-> "dict", d |-> d]

\* the text line 72 of views.py returns
FallbackInsight == "Could not generate AI insights for this route at the moment."
AdviceBody == "Take the kombi from Fourth Street."
FullJsonBody ==
    "{\"safety_rating\":4,\"alternatives\":[],\"tips\":[\"x\"],\"weather_impact\":\"\",\"kombi_stops\":[]}"
TipsJsonBody == "{\"tips\":[\"x\"]}"
ErrorJsonBody == "{\"error\":\"AI insights currently unavailable: timeout\"}"

\* the texts the text generator answers with in the model
GenBodies ==
    {AdviceBody, FallbackInsight, "", FullJsonBody, TipsJsonBody, ErrorJsonBody}

\* json.loads on those texts: the parsed value, or JSONDecodeError (exc)
json_loads(txt) ==
    IF txt.body = FullJsonBody
    THEN [exc |-> FALSE,
          value |-> PyDict([safety_rating |-> PyNum(4),
                            alternatives |-> PyList(<<>>),
                            tips |-> PyList(<<"x">>),
                            weather_impact |-> PyText(GenText(0, "")),
                            kombi_stops |-> PyList(<<>>)])]
    ELSE IF txt.body = TipsJsonBody
    THEN [exc |-> FALSE, value |-> PyDict([tips |-> PyList(<<"x">>)])]
    ELSE IF txt.body = ErrorJsonBody
    THEN [exc |-> FALSE,
          value |-> PyDict([error |->
                     PyText(GenText(0, "AI insights currently unavailable: timeout"))])]
    ELSE [exc |-> TRUE, value |-> PyNone]

\* str.lower() on the transport modes of the model
Lower(str) ==
    IF str = "TRANSIT" THEN "transit"
    ELSE IF str = "DRIVING" THEN "driving"
    ELSE str

\* round(x / 60), Python's round-half-to-even
RoundMinutes(seconds) ==
    LET q == seconds \div 60
        r == seconds % 60
    IN IF r < 30 THEN q
       ELSE IF r > 30 THEN q + 1
       ELSE IF q % 2 = 0 THEN q ELSE q + 1

\* f"{(distance_value / 1000):.1f} km" in tenths of a kilometre, or the
\* phrase for a value that is no number (line 43)
DistancePhrase(v) ==
    IF v.t = "num" THEN [k |-> "km", n |-> (v.n + 50) \div 100]
    ELSE [k |-> "unknown distance", n |-> 0]

\* f"{round(duration_value / 60)} minutes", or the phrase for a value that is
\* no number (line 44)
DurationPhrase(v) ==
    IF v.t = "num" THEN [k |-> "minutes", n |-> RoundMinutes(v.n)]
    ELSE [k |-> "unknown duration", n |-> 0]

\* the prompt of lines 46-67, as the facts put into it
InsightPrompt(start, end, mode, distance_value, duration_value) ==
    [start |-> start, end |-> end,
     distance |-> DistancePhrase(distance_value),
     duration |-> DurationPhrase(duration_value),
     transport |-> IF Lower(mode.s) = "transit" THEN "Kombi" ELSE mode.s]

\* what lines 41-69 do before any handler: raised tells whether an exception
\* was thrown, called whether generate_content was called (with prompt), text
\* the text read
InsightBody(start, end, mode, distance_value, duration_value, ai) ==
    LET prompt == InsightPrompt(start, end, mode, distance_value, duration_value) IN
    IF ai.construct # "ok"
    THEN [raised |-> TRUE, called |-> FALSE, prompt |-> PyNone, text |-> GenText(0, "")]
    ELSE IF mode.t # "str"
    THEN [raised |-> TRUE, called |-> FALSE, prompt |-> PyNone, text |-> GenText(0, "")]
    ELSE IF ai.call.k # "ok"
    THEN [raised |-> TRUE, called |-> TRUE, prompt |-> prompt, text |-> GenText(0, "")]
    ELSE [raised |-> FALSE, called |-> TRUE, prompt |-> prompt,
          text |-> Strip(ai.call.text)]

\* an insight function without its except clause, used to test the claims
\* about its failures
get_ai_insights_unguarded(start, end, mode, distance_value, duration_value, ai) ==
    LET b == InsightBody(start, end, mode, distance_value, duration_value, ai) IN
    [exc |-> b.raised, called |-> b.called, prompt |-> b.prompt,
     value |-> PyText(b.text)]

\* _get_ai_insights_for_route: value is the str returned
get_ai_insights_for_route(start, end, mode, distance_value, duration_value, ai) ==
    LET b == InsightBody(start, end, mode, distance_value, duration_value, ai) IN
    [exc |-> FALSE, called |-> b.called, prompt |-> b.prompt,
     value |-> IF b.raised THEN PyText(GenText(0, FallbackInsight))
               ELSE PyText(b.text)]

\* the text of the exception generate_content (or reading its text) raised
FaultText(ai) ==
    IF ai.call.k = "raise" THEN ai.call.msg ELSE "response has no text"

\* GeminiService._build_prompt raises TypeError: distance / 1000 or
\* duration // 60 on a value that is no number (a missing key reads as 0)
BuildPromptRaises(route) ==
    \/ route.distance.t \notin {"num", "absent"}
    \/ route.duration.t \notin {"num", "absent"}

\* GeminiService.get_route_insights: value is the dict (or other parsed
\* value) returned
get_route_insights(route, ai) ==
    IF BuildPromptRaises(route)
    THEN [exc |-> FALSE, called |-> FALSE,
          value |-> PyDict([error |-> PyText(GenText(0,
                      "AI insights currently unavailable: " \o "unsupported operand"))])]
    ELSE IF ai.call.k # "ok"
    THEN [exc |-> FALSE, called |-> TRUE,
          value |-> PyDict([error |-> PyText(GenText(0,
                      "AI insights currently unavailable: " \o FaultText(ai)))])]
    ELSE LET parsed == json_loads(ai.call.text) IN
         [exc |-> FALSE, called |-> TRUE,
          value |-> IF parsed.exc
                    THEN PyDict([raw_insight |-> PyText(ai.call.text),
                                 error |-> PyText(GenText(0,
                                            "AI response was not valid JSON."))])
                    ELSE parsed.value]

(***************************************************************************)
(* routing/views.py: the request handlers.  A handler's outcome is          *)
(* [status, body, outbound, insight_calls, saved]: the response, the        *)
(* directions requests sent, the calls of the insight generator, and the    *)
(* records handed to Route.objects.create.                                  *)
(***************************************************************************)
NoBody ==
    [error |-> "", details |-> "", primary_route |-> PyNone,
     alternatives |-> <<>>, ai_insights |-> PyNone, saved_route_id |-> 0]

Outcome(status, body, outbound, insight_calls, saved) ==
    [status |-> status, body |-> body, outbound |-> outbound,
     insight_calls |-> insight_calls, saved |-> saved]

ErrorBody(error, details) == [NoBody EXCEPT !.error = error, !.details = details]

\* validated_data['origin'].split(','): validated_data holds the Point that
\* to_internal_value returned, and a Point has no attribute 'split'
PointSplit(point) ==
    [exc |-> TRUE, msg |-> "'Point' object has no attribute 'split'", parts |-> <<>>]

\* RouteOptimizationView._get_avoid_params
get_avoid_params(data) ==
    (IF data.avoid_highways THEN <<"highways">> ELSE <<>>)
       \o (IF data.avoid_tolls THEN <<"tolls">> ELSE <<>>)

\* lines 97-144 of RouteOptimizationView.post, reached with the two points
PostWithPoints(data, origin_point, destination_point, env) ==
    LET mode == IF data.mode = "absent" THEN "driving" ELSE data.mode
        r == get_route(origin_point, destination_point, mode,
                       get_avoid_params(data), env)
    IN IF Len(r.routes) = 0
       THEN Outcome(404, ErrorBody("No routes found for the given criteria.", ""),
                    r.outbound, 0, <<>>)
       ELSE LET primary_route == r.routes[1]
                ai == get_ai_insights_for_route(
                         LatLngStr(r.origin), LatLngStr(r.destination), PyStr(mode),
                         PyNum(primary_route.distance_value),
                         PyNum(primary_route.duration_value), env.ai)
                route_data == [origin |-> r.origin, destination |-> r.destination,
                               mode |-> mode,
                               distance |-> primary_route.distance_value,
                               duration |-> primary_route.duration_value,
                               polyline |-> primary_route.polyline,
                               ai_insights |-> ai.value]
            IN IF env.db # "ok"
               THEN Outcome(500, ErrorBody("An error occurred during route optimization",
                                           env.db),
                            r.outbound, 1, <<>>)
               ELSE Outcome(200,
                            [NoBody EXCEPT !.primary_route = primary_route,
                                           !.ai_insights = ai.value,
                                           !.alternatives = Tail(r.routes),
                                           !.saved_route_id = 1],
                            r.outbound, 1, <<route_data>>)

\* RouteOptimizationView.post
post(data, env) ==
    IF ~is_valid(data)
    THEN Outcome(400, ErrorBody("invalid", ""), <<>>, 0, <<>>)
    ELSE LET origin == to_internal_value(data.origin).point
             destination == to_internal_value(data.destination).point
             o == PointSplit(origin)
         IN IF o.exc
            THEN Outcome(500, ErrorBody("An error occurred during route optimization",
                                        o.msg),
                         <<>>, 0, <<>>)
            ELSE PostWithPoints(data, Point(o.parts[2], o.parts[1]),
                                Point(PointSplit(destination).parts[2],
                                      PointSplit(destination).parts[1]), env)

\* a test of a request field for presence only, used to test the claims
\* about missing parameters
TruthyIfPresent(v) ==
    v.t # "none"

\* truth value of a request field
Truthy(v) ==
    \/ v.t = "str" /\ v.s # ""
    \/ v.t = "num" /\ v.n # 0

\* lines 55-62 of get_place_details_by_id, before the handler of line 63: the
\* lookup raises on a transport fault; a response that is empty, has no
\* result or no geometry gives None; a geometry without 'location', or a
\* location without 'lat', raises KeyError on lines 57-60
PlaceLookup(place) ==
    IF place.k = "transport"
    THEN [exc |-> TRUE, found |-> FALSE, point |-> Point(0, 0)]
    ELSE IF place.k \in {"no response", "no result", "no geometry"}
    THEN [exc |-> FALSE, found |-> FALSE, point |-> Point(0, 0)]
    ELSE IF place.k \in {"no location", "no lat"}
    THEN [exc |-> TRUE, found |-> FALSE, point |-> Point(0, 0)]
    ELSE [exc |-> FALSE, found |-> TRUE, point |-> Point(place.lng, place.lat)]

\* a place lookup without its except clause, used to test the claims about
\* its failures
get_place_details_unguarded(place) ==
    PlaceLookup(place)

\* GoogleMapsService.get_place_details_by_id: the Point (found), or None
get_place_details_by_id(place) ==
    LET r == PlaceLookup(place) IN
    IF r.exc THEN [exc |-> FALSE, found |-> FALSE, point |-> Point(0, 0)] ELSE r

\* the 'route' object of simulate_route's 200 response
SimulatedRoute(primary) ==
    [overview_polyline |-> primary.polyline,
     distance |-> primary.distance_value,
     duration |-> primary.duration_value]

\* an outcome of simulate_route: lookups counts the place lookups made
SimOutcome(status, body, outbound, insight_calls, lookups) ==
    [status |-> status, body |-> body, outbound |-> outbound,
     insight_calls |-> insight_calls, saved |-> <<>>, lookups |-> lookups]

\* simulate_route
simulate_route(req, env) ==
    IF req.method # "POST"
    THEN SimOutcome(405, ErrorBody("Method not allowed", ""), <<>>, 0, 0)
    ELSE IF req.body = "malformed"
    THEN SimOutcome(400, ErrorBody("Invalid request body format.", ""), <<>>, 0, 0)
    ELSE IF req.body = "list"
    THEN SimOutcome(500, ErrorBody("An unexpected server error occurred: ",
                                   "'list' object has no attribute 'get'"),
                    <<>>, 0, 0)
    ELSE IF ~(/\ Truthy(req.startPlaceId) /\ Truthy(req.endPlaceId)
              /\ Truthy(req.mode) /\ Truthy(req.start_location_name)
              /\ Truthy(req.end_location_name))
    THEN SimOutcome(400, ErrorBody("Missing required parameters (place IDs, names, or mode).", ""),
                    <<>>, 0, 0)
    ELSE IF env.client # "ok"
    THEN SimOutcome(500, ErrorBody("An unexpected server error occurred: ", env.client),
                    <<>>, 0, 0)
    ELSE LET origin_point == get_place_details_by_id(env.place1)
             destination_point == get_place_details_by_id(env.place2)
         IN IF origin_point.exc \/ destination_point.exc
            THEN SimOutcome(500, ErrorBody("An unexpected server error occurred: ",
                                           "place lookup"),
                            <<>>, 0, 2)
            ELSE IF ~origin_point.found \/ ~destination_point.found
            THEN SimOutcome(400, ErrorBody("Could not resolve exact coordinates for the provided locations. Please try more specific locations.", ""),
                            <<>>, 0, 2)
            ELSE IF req.mode.t # "str"
            THEN SimOutcome(500, ErrorBody("An unexpected server error occurred: ",
                                           "object has no attribute 'lower'"),
                            <<>>, 0, 2)
            ELSE LET r == get_route(origin_point.point, destination_point.point,
                                    Lower(req.mode.s), <<>>, env)
                 IN IF r.exc
                    THEN SimOutcome(500, ErrorBody("An unexpected server error occurred: ",
                                                   "directions"),
                                    r.outbound, 0, 2)
                    ELSE IF Len(r.routes) = 0
                    THEN SimOutcome(404, ErrorBody("No route found for the given locations. This might be due to invalid inputs or geographical constraints.", ""),
                                    r.outbound, 0, 2)
                    ELSE LET primary == r.routes[1]
                             ai == get_ai_insights_for_route(
                                      req.start_location_name, req.end_location_name,
                                      req.mode, PyNum(primary.distance_value),
                                      PyNum(primary.duration_value), env.ai)
                         IN IF ai.exc
                            THEN SimOutcome(500,
                                    ErrorBody("An unexpected server error occurred: ",
                                              "insight"),
                                    r.outbound, 1, 2)
                            ELSE SimOutcome(200,
                                    [NoBody EXCEPT !.primary_route = SimulatedRoute(primary),
                                                   !.ai_insights = ai.value],
                                    r.outbound, 1, 2)

(***************************************************************************)
(* WeatherView.post.  The weather provider's answer is an HTTP response    *)
(* [k = "http", code, json] (json: the body parses as JSON) or a transport *)
(* failure [k = "network", msg].                                           *)
(***************************************************************************)
HttpAnswer(code, json) == [k |-> "http", code |-> code, json |-> json, msg |-> ""]
NetworkFailure(msg) == [k |-> "network", code |-> 0, json |-> FALSE, msg |-> msg]

\* the reason phrase of an upstream status
ReasonPhrase(code) ==
    CASE code = 401 -> "401 Client Error: Unauthorized"
      [] code = 403 -> "403 Client Error: Forbidden"
      [] code = 429 -> "429 Client Error: Too Many Requests"
      [] code = 500 -> "500 Server Error: Internal Server Error"
      [] code = 503 -> "503 Server Error: Service Unavailable"
      [] OTHER -> "Error"

\* str(e) of the HTTPError response.raise_for_status() raises: the status,
\* the reason and the request's url with its query string
HTTPErrorText(code) ==
    ReasonPhrase(code)
       \o " for url: https://api.openweathermap.org/data/2.5/weather?lat=..&lon=..&appid=KEY&units=metric"

\* response.raise_for_status(): raises for 400 <= status < 600
raise_for_status(answer) ==
    IF answer.code >= 400 /\ answer.code < 600
    THEN [exc |-> TRUE, msg |-> HTTPErrorText(answer.code)]
    ELSE [exc |-> FALSE, msg |-> ""]

\* an outcome of WeatherView.post: unhandled tells that an exception left the
\* method, calls counts the requests sent to the weather provider
WeatherOutcome(status, body, calls, unhandled) ==
    [status |-> status, body |-> body, calls |-> calls, unhandled |-> unhandled]

\* WeatherView.post; env.json_error_is_request_exception tells whether the
\* installed requests raises a RequestException from response.json()
weather_post(req, env) ==
    IF ~(Truthy(req.lat) /\ Truthy(req.lon))
    THEN WeatherOutcome(400, ErrorBody("Latitude and longitude are required.", ""), 0, FALSE)
    ELSE IF env.key = ""
    THEN WeatherOutcome(500,
            ErrorBody("Server configuration error: Weather API key not found.", ""),
            0, FALSE)
    ELSE IF env.upstream.k = "network"
    THEN WeatherOutcome(502, ErrorBody("", env.upstream.msg), 1, FALSE)
    ELSE LET checked == raise_for_status(env.upstream) IN
         IF checked.exc
         THEN WeatherOutcome(502, ErrorBody("", checked.msg), 1, FALSE)
         ELSE IF ~env.upstream.json
         THEN IF env.json_error_is_request_exception
              THEN WeatherOutcome(502,
                      ErrorBody("", "Expecting value: line 1 column 1 (char 0)"), 1, FALSE)
              ELSE WeatherOutcome(500, ErrorBody("", ""), 1, TRUE)
         ELSE WeatherOutcome(200, [NoBody EXCEPT !.primary_route = PyStr("snapshot")],
                             1, FALSE)

(***************************************************************************)
(* SpecRoute: one call of an operation of the route pipeline, its request  *)
(* and the providers' answers drawn from the sets below.                   *)
(***************************************************************************)
SeqsUpTo(S, n) == UNION { [1..m -> S] : m \in 0..n }

ValidOrigin == StrOf(<<NumPart(-17829), NumPart(31052)>>)
ValidDestination == StrOf(<<NumPart(-17822), NumPart(31049)>>)

\* the point texts a client submits: valid, one number, three parts,
\* a non-numeric part, empty, a number instead of a string, nothing
PointStrs ==
    { ValidOrigin, ValidDestination,
      StrOf(<<NumPart(5)>>),
      StrOf(<<NumPart(1), NumPart(2), NumPart(3)>>),
      StrOf(<<WordPart, NumPart(31052)>>),
      StrOf(<<WordPart>>),
      PyNum(5), PyNone }

StepX == [dist |-> 1200, dur |-> 200, html |-> "Head <b>north</b>", points |-> "sx"]
StepY == [dist |-> 3800, dur |-> 500, html |-> "Turn left", points |-> "sy"]

LegA ==
    [distance |-> Measure(3200, "3.2 km"), duration |-> Measure(600, "10 mins"),
     traffic |-> NoMeasure, steps |-> <<StepX>>]
LegB ==
    [distance |-> Measure(5000, "5.0 km"), duration |-> Measure(700, "12 mins"),
     traffic |-> Measure(650, "11 mins"), steps |-> <<StepX, StepY>>]
LegTrafficText ==
    [distance |-> Measure(4100, "4.1 km"), duration |-> Measure(700, "12 mins"),
     traffic |-> TextOnly("11 mins"), steps |-> <<StepY>>]
LegBare ==
    [distance |-> NoMeasure, duration |-> NoMeasure, traffic |-> NoMeasure,
     steps |-> <<>>]
LegNull ==
    [distance |-> NullMeasure, duration |-> Measure(600, "10 mins"),
     traffic |-> NoMeasure, steps |-> <<>>]

RouteA == [legs |-> <<LegA>>, polyline |-> PyStr("encA")]
RouteB == [legs |-> <<LegB, LegA>>, polyline |-> PyStr("encB")]
RouteT == [legs |-> <<LegTrafficText>>, polyline |-> PyStr("encT")]
RouteNoLegs == [legs |-> <<>>, polyline |-> PyStr("encC")]
RouteBare == [legs |-> <<LegBare>>, polyline |-> PyNone]
RouteNull == [legs |-> <<LegNull>>, polyline |-> PyStr("encN")]

RawRoutes == {RouteA, RouteB, RouteT, RouteNoLegs, RouteBare, RouteNull}

Answered(routes) == [k |-> "ok", routes |-> routes]
Failed(kind) == [k |-> kind, routes |-> <<>>]

\* what the directions provider does: a transport or authentication failure,
\* an unreadable response, or up to MaxRoutes routes
DirectionsOutcomes ==
    { Failed("transport"), Failed("auth"), Failed("unreadable") }
       \cup { Answered(r) : r \in SeqsUpTo(RawRoutes, MaxRoutes) }

DirectionsFew == { Failed("transport"), Answered(<<>>), Answered(<<RouteA>>) }

Generated(txt) == [k |-> "ok", text |-> txt, msg |-> ""]
CallRaises(msg) == [k |-> "raise", text |-> GenText(0, ""), msg |-> msg]
Blocked == [k |-> "blocked", text |-> GenText(0, ""), msg |-> ""]

\* what the text generator does: the call raises, the response has no text,
\* or a text comes back
GeneratorCalls ==
    { CallRaises("timeout"), CallRaises("quota exceeded"), Blocked }
       \cup { Generated(GenText(pad, b)) : pad \in 0..1, b \in GenBodies }

AIOutcomes ==
    { [construct |-> "ok", call |-> c] : c \in GeneratorCalls }
       \cup { [construct |-> "no api key", call |-> Blocked] }

AIFew ==
    { [construct |-> "ok", call |-> c] :
         c \in { CallRaises("timeout"), Generated(GenText(1, AdviceBody)),
                 Generated(GenText(0, FullJsonBody)) } }

ZeroOff == [dy |-> 0, dx |-> 0]

Env(anonymize, off1, off2, directions, ai) ==
    [anonymize |-> anonymize, off1 |-> off1, off2 |-> off2,
     directions |-> directions, ai |-> ai, db |-> "ok", client |-> "ok",
     place1 |-> [k |-> "ok", lat |-> 0, lng |-> 0],
     place2 |-> [k |-> "ok", lat |-> 0, lng |-> 0]]

\* privacy mode off or on, with every pair of offsets the generator may draw
PrivacyAll ==
    { <<on, a, b>> : on \in BOOLEAN, a \in Offsets, b \in Offsets }

PrivacyFew ==
    { <<on, [dy |-> DegreeOffsetMilli, dx |-> 0 - DegreeOffsetMilli],
            [dy |-> 0 - DegreeOffsetMilli, dx |-> DegreeOffsetMilli]>> : on \in BOOLEAN }

EnvsRich ==
    { Env(p[1], p[2], p[3], d, a) : p \in PrivacyFew, d \in DirectionsOutcomes, a \in AIFew }

EnvsPrivacy ==
    { Env(p[1], p[2], p[3], d, a) :
         p \in PrivacyAll, d \in DirectionsFew,
         a \in {[construct |-> "ok", call |-> Generated(GenText(0, AdviceBody))]} }

EnvsFew ==
    { Env(p[1], p[2], p[3], d, a) : p \in PrivacyFew, d \in DirectionsFew, a \in AIFew }

PostData(origin, destination, mode, avoid_highways) ==
    [origin |-> origin, destination |-> destination, mode |-> mode,
     avoid_highways |-> avoid_highways, avoid_tolls |-> FALSE]

PostScenarios ==
    { [data |-> PostData(o, d, m, FALSE), env |-> e] :
         o \in PointStrs, d \in {ValidDestination, StrOf(<<WordPart>>), PyNone},
         m \in {"absent", "driving", "a mode of more than twenty characters"},
         e \in EnvsFew }
    \cup
    { [data |-> PostData(ValidOrigin, ValidDestination, m, h), env |-> e] :
         m \in {"absent", "transit"}, h \in BOOLEAN,
         e \in EnvsRich \cup { [x EXCEPT !.db = "database is locked"] : x \in EnvsFew } }

GetRouteScenarios ==
    { [origin |-> Point(31052, -17829), destination |-> Point(31049, -17822),
       mode |-> "driving", avoid |-> a, env |-> e] :
         a \in {<<>>, <<"highways", "tolls">>}, e \in EnvsRich \cup EnvsPrivacy }

InsightValues == { PyNum(3200), PyNum(650), PyNone, PyStr("far") }

InsightScenarios ==
    { [start |-> PyStr("Avondale"), end |-> PyStr("CBD"), mode |-> m,
       distance_value |-> d, duration_value |-> t, ai |-> a] :
         m \in {PyStr("driving"), PyStr("TRANSIT"), PyNone},
         d \in InsightValues, t \in InsightValues, a \in AIOutcomes }

GeminiScenarios ==
    { [route |-> [distance |-> d, duration |-> t], ai |-> a] :
         d \in InsightValues \cup {[t |-> "absent"]},
         t \in {PyNum(600), PyNone},
         a \in { x \in AIOutcomes : x.construct = "ok" } }

Place(lat, lng) == [k |-> "ok", lat |-> lat, lng |-> lng]
NoPlace(kind) == [k |-> kind, lat |-> 0, lng |-> 0]

\* what the place lookup does: a place, a transport failure, an empty
\* response, no result, a result without geometry, a geometry without
\* location, a location without latitude
PlaceOutcomes ==
    { Place(-17829, 31052), Place(0, 0), NoPlace("transport"), NoPlace("no response"),
      NoPlace("no result"), NoPlace("no geometry"), NoPlace("no location"),
      NoPlace("no lat") }

PlacesFew ==
    { Place(-17829, 31052), NoPlace("transport"), NoPlace("no geometry"),
      NoPlace("no location") }

SimRequest(method, body, startPlaceId, endPlaceId, mode, start_name, end_name) ==
    [method |-> method, body |-> body, startPlaceId |-> startPlaceId,
     endPlaceId |-> endPlaceId, mode |-> mode,
     start_location_name |-> start_name, end_location_name |-> end_name]

SimRequests ==
    { SimRequest("POST", "dict", a, b, m, n, PyStr("CBD")) :
         a \in {PyStr("place-a"), PyNone}, b \in {PyStr("place-b"), PyStr("")},
         m \in {PyStr("driving"), PyStr("TRANSIT"), PyNum(5), PyNone},
         n \in {PyStr("Avondale"), PyNone} }
    \cup
    { SimRequest(x[1], x[2], PyStr("place-a"), PyStr("place-b"), PyStr("driving"),
                 PyStr("Avondale"), PyStr("CBD")) :
         x \in { <<"GET", "dict">>, <<"POST", "malformed">>, <<"POST", "list">> } }

SimulateScenarios ==
    { [req |-> r, env |-> [e EXCEPT !.client = c, !.place1 = p1, !.place2 = p2]] :
         r \in SimRequests, e \in EnvsFew,
         c \in {"ok", "Must provide API key"},
         p1 \in PlacesFew, p2 \in {Place(-17822, 31049), NoPlace("no result")} }
    \cup
    { [req |-> SimRequest("POST", "dict", PyStr("place-a"), PyStr("place-b"), m,
                          PyStr("Avondale"), PyStr("CBD")),
       env |-> [e EXCEPT !.place1 = Place(-17829, 31052),
                         !.place2 = Place(-17822, 31049)]] :
         m \in {PyStr("driving"), PyStr("TRANSIT")}, e \in EnvsRich }

\* what the weather provider does
UpstreamOutcomes ==
    { HttpAnswer(c, j) : c \in {200, 204, 401, 403, 429, 500, 503}, j \in BOOLEAN }
       \cup { NetworkFailure(m) :
                 m \in {"HTTPSConnectionPool(host='api.openweathermap.org', port=443): Max retries exceeded",
                        "HTTPSConnectionPool(host='api.openweathermap.org', port=443): Read timed out."} }

WeatherScenarios ==
    { [req |-> [lat |-> a, lon |-> b],
       env |-> [key |-> k, upstream |-> u, json_error_is_request_exception |-> x]] :
         a \in {PyNum(-17829), PyStr("-17.829"), PyNum(0), PyNone},
         b \in {PyNum(31052), PyStr(""), PyNone},
         k \in {"KEY", ""}, u \in UpstreamOutcomes, x \in BOOLEAN }

\* the provider responses _process_routes is called with
ProcessScenarios ==
    { [response |-> r] : r \in SeqsUpTo(RawRoutes, MaxRoutes) }

RouteInit ==
    /\ rdone = FALSE
    /\ rout = <<>>
    /\ \/ op = "post" /\ rin \in PostScenarios
       \/ op = "simulate" /\ rin \in SimulateScenarios
       \/ op = "get_route" /\ rin \in GetRouteScenarios
       \/ op = "insight" /\ rin \in InsightScenarios
       \/ op = "gemini" /\ rin \in GeminiScenarios
       \/ op = "place" /\ rin \in PlaceOutcomes
       \/ op = "weather" /\ rin \in WeatherScenarios
       \/ op = "process" /\ rin \in ProcessScenarios

DoPost ==
    /\ op = "post" /\ ~rdone
    /\ rout' = post(rin.data, rin.env)
    /\ rdone' = TRUE
    /\ UNCHANGED <<op, rin>>

DoSimulate ==
    /\ op = "simulate" /\ ~rdone
    /\ rout' = simulate_route(rin.req, rin.env)
    /\ rdone' = TRUE
    /\ UNCHANGED <<op, rin>>

DoGetRoute ==
    /\ op = "get_route" /\ ~rdone
    /\ rout' = get_route(rin.origin, rin.destination, rin.mode, rin.avoid, rin.env)
    /\ rdone' = TRUE
    /\ UNCHANGED <<op, rin>>

DoInsight ==
    /\ op = "insight" /\ ~rdone
    /\ rout' = get_ai_insights_for_route(rin.start, rin.end, rin.mode,
                  rin.distance_value, rin.duration_value, rin.ai)
    /\ rdone' = TRUE
    /\ UNCHANGED <<op, rin>>

DoGemini ==
    /\ op = "gemini" /\ ~rdone
    /\ rout' = get_route_insights(rin.route, rin.ai)
    /\ rdone' = TRUE
    /\ UNCHANGED <<op, rin>>

DoPlace ==
    /\ op = "place" /\ ~rdone
    /\ rout' = get_place_details_by_id(rin)
    /\ rdone' = TRUE
    /\ UNCHANGED <<op, rin>>

DoWeather ==
    /\ op = "weather" /\ ~rdone
    /\ rout' = weather_post(rin.req, rin.env)
    /\ rdone' = TRUE
    /\ UNCHANGED <<op, rin>>

DoProcess ==
    /\ op = "process" /\ ~rdone
    /\ rout' = process_routes(rin.response)
    /\ rdone' = TRUE
    /\ UNCHANGED <<op, rin>>

RouteSpecInit == RLInit({{}}) /\ RouteInit

RouteNext ==
    \/ DoPost /\ UNCHANGED rlvars
    \/ DoSimulate /\ UNCHANGED rlvars
    \/ DoGetRoute /\ UNCHANGED rlvars
    \/ DoInsight /\ UNCHANGED rlvars
    \/ DoGemini /\ UNCHANGED rlvars
    \/ DoPlace /\ UNCHANGED rlvars
    \/ DoWeather /\ UNCHANGED rlvars
    \/ DoProcess /\ UNCHANGED rlvars

SpecRoute == RouteSpecInit /\ [][RouteNext]_vars

(***************************************************************************)
(* Claims about the rate limiter.                                          *)
(***************************************************************************)

\* C1: under any interleaving of concurrent workers handling one client IP,
\* the number of requests admitted within one window of the IP's key never
\* exceeds the tier threshold (50 local, 100 otherwise).
C1_AdmittedWithinThreshold ==
    \A k \in Keys : admitted[k] <= Threshold(k)

\* C2: requests issued one after another from one IP inside one window: exactly
\* the first T are admitted and every later one is answered 429 (T = 50 for a
\* local-region IP, 100 otherwise); none is lost to an exception, and the stored
\* count is the number admitted.
C2_FirstTAdmittedThenRejected ==
    /\ \A k \in Keys :
          LET T == IF IsZimIP(k.ip) THEN 50 ELSE 100 IN
          /\ admitted[k] <= T
          /\ rejected[k] > 0 => admitted[k] = T
          /\ cache[k].present => cache[k].count = admitted[k]
    /\ \A w \in Workers : resp[w] \in {"none", "admit", "429"}

\* C2 witness: a local-region IP has had 50 requests admitted and the 51st
\* answered 429 in one window.
C2_Witness ==
    \E w \in Workers :
       LET k == KeyOfWorker(w) IN
       /\ pc[w] = "idle" /\ resp[w] = "429"
       /\ k.tier = "zim" /\ admitted[k] = 50 /\ rejected[k] = 1

\* C3: once the window of a key has elapsed the count is reset: the next request
\* of that IP is admitted whatever was counted or rejected in the previous
\* window, and it starts a fresh window (count 1, a full 60 seconds to run).
C3_FreshWindowAfterExpiry ==
    [][\A w \in Workers :
         (pc[w] # "idle" /\ pc'[w] = "idle" /\ sawMissing[w]) =>
            /\ resp'[w] = "admit"
            /\ cache'[KeyOfWorker(w)] =
                  [present |-> TRUE, count |-> 1, ttl |-> WindowSeconds]
            /\ admitted'[KeyOfWorker(w)] = 1]_vars

\* C3 witness: the previous window ended at the threshold with rejections, it
\* elapsed, and the next request was admitted into a fresh window.
C3_Witness ==
    \E w \in Workers :
       LET k == KeyOfWorker(w) IN
       /\ pc[w] = "idle" /\ resp[w] = "admit" /\ sawMissing[w]
       /\ prevFull[k] /\ cache[k].present /\ cache[k].count = 1

\* C4: the rate limiter never raises: whatever fault the counter store shows
\* during process_request, no exception reaches the caller.
C4_NeverRaises ==
    \A w \in Workers : resp[w] # "raise"

(***************************************************************************)
(* Claims about the route pipeline.                                        *)
(***************************************************************************)
\* the provider response holds a route whose first leg cannot be read
Unreadable(directions) ==
    \E i \in 1..Len(directions.routes) :
       /\ Len(directions.routes[i].legs) > 0
       /\ \E m \in {directions.routes[i].legs[1].distance,
                    directions.routes[i].legs[1].duration,
                    directions.routes[i].legs[1].traffic} : m.k = "null"

\* the provider call or the normalisation of its response fails
ProviderFails(directions) == directions.k # "ok" \/ Unreadable(directions)

\* the indices of the routes of a response that have a leg
Usable(directions) ==
    { i \in 1..Len(directions.routes) : Len(directions.routes[i].legs) > 0 }

\* a point text that is no 'lat,lng' string
MalformedPoint(d) ==
    \/ d.t # "str"
    \/ d.t = "str" /\ Len(d.parts) # 2
    \/ d.t = "str" /\ \E i \in 1..Len(d.parts) : ~d.parts[i].num

\* C5: get_route never propagates an exception: a transport, authentication
\* or parse failure of the provider call or of the normalisation of its
\* response yields an empty list of routes.
C5_GetRouteNeverRaises ==
    (op = "get_route" /\ rdone) =>
       /\ ~rout.exc
       /\ ProviderFails(rin.env.directions) => rout.routes = <<>>

\* C5 witness: the provider answered a good route and one that cannot be
\* read, and get_route returned the empty list.
C5_Witness ==
    /\ op = "get_route" /\ rdone
    /\ rin.env.directions = Answered(<<RouteA, RouteNull>>)
    /\ rout.routes = <<>> /\ ~rout.exc

\* C6: an optimize-route request with valid 'lat,lng' origin and destination,
\* for which the provider returns n >= 1 usable routes, is answered 200 with
\* the first candidate as primary_route, the other n-1 as alternatives, a
\* non-empty insight and the id of the saved record.
C6_ValidRequestAnswered200 ==
    (/\ op = "post" /\ rdone
     /\ is_valid(rin.data) /\ rin.env.db = "ok"
     /\ ~ProviderFails(rin.env.directions)
     /\ Usable(rin.env.directions) # {}) =>
       /\ rout.status = 200
       /\ rout.body.primary_route # PyNone
       /\ Len(rout.body.alternatives) = Cardinality(Usable(rin.env.directions)) - 1
       /\ rout.body.ai_insights # PyNone
       /\ rout.body.saved_route_id > 0
       /\ Len(rout.saved) = 1

\* C7: optimize-route maps failures to stable statuses: a malformed origin or
\* destination gives 400 with no directions request; an empty candidate
\* sequence (also one caused by a provider failure) gives 404 with no call of
\* the insight generator; a 200 never carries zero routes.
C7_StableFailureStatuses ==
    (op = "post" /\ rdone) =>
       /\ (MalformedPoint(rin.data.origin) \/ MalformedPoint(rin.data.destination)) =>
             (rout.status = 400 /\ rout.outbound = <<>>)
       /\ (/\ is_valid(rin.data)
           /\ (ProviderFails(rin.env.directions) \/ Usable(rin.env.directions) = {})) =>
             (rout.status = 404 /\ rout.insight_calls = 0)
       /\ rout.status = 200 => rout.body.primary_route # PyNone

\* the text-generation call of an insight scenario failed
CallFailed(ai) == ai.construct # "ok" \/ ai.call.k # "ok"

VariantOf(call) ==
    IF call.k # "ok" THEN "Unavailable"
    ELSE IF json_loads(call.text).exc THEN "PlainText"
    ELSE "Structured"

\* the value the operation of this run returns when the generator answers c
ValueWith(c) ==
    IF op = "insight"
    THEN get_ai_insights_for_route(rin.start, rin.end, rin.mode, rin.distance_value,
                                   rin.duration_value, [rin.ai EXCEPT !.call = c]).value
    ELSE get_route_insights(rin.route, [rin.ai EXCEPT !.call = c]).value

\* C9: every insight call yields one of Structured, PlainText, Unavailable and
\* the value returned tells which: no answer of another variant gives the same
\* value, and a free text is returned verbatim.
C9_VariantsDistinguishable ==
    (/\ op \in {"insight", "gemini"} /\ rdone
     /\ rin.ai.construct = "ok"
     /\ op = "insight" => rin.mode.t = "str"
     /\ op = "gemini" => ~BuildPromptRaises(rin.route)) =>
       /\ \A c \in GeneratorCalls :
             VariantOf(c) # VariantOf(rin.ai.call) => ValueWith(c) # rout.value
       /\ VariantOf(rin.ai.call) = "PlainText" =>
             IF op = "insight" THEN rout.value = PyText(rin.ai.call.text)
             ELSE rout.value.d.raw_insight = PyText(rin.ai.call.text)

\* the 'lat,lng' text sent to the provider names this latitude and longitude
Names(str, lat, lng) == str = StrOf(<<NumPart(lat), NumPart(lng)>>)

\* the record lines 97-144 of post hand to persistence for the two points
WouldSave(data, origin, destination, env) ==
    PostWithPoints(data, origin, destination, env).saved

C11_PlaceLookupNeverRaises ==
    (op = "place" /\ rdone) =>
       /\ ~rout.exc
       /\ rin.k # "ok" => ~rout.found
       /\ rin.k = "ok" => (rout.found /\ rout.point = Point(rin.lng, rin.lat))

\* C11 witness: the geometry of the response had no location, and the lookup
\* returned None.
C11_Witness ==
    /\ op = "place" /\ rdone
    /\ rin = NoPlace("no location")
    /\ ~rout.found /\ ~rout.exc

\* a required field of a simulate-route request is missing or empty
MissingParam(req) ==
    \E v \in {req.startPlaceId, req.endPlaceId, req.mode,
               req.start_location_name, req.end_location_name} :
       v.t = "none" \/ (v.t = "str" /\ v.s = "") \/ (v.t = "num" /\ v.n = 0)

\* the first route of a provider answer that has a leg
FirstUsable(directions) ==
    directions.routes[CHOOSE i \in Usable(directions) :
                         \A j \in Usable(directions) : i <= j]

\* C12: simulate-route checks in a fixed order and stops at the first failure:
\* a method other than POST gives 405; a missing place id, label or mode gives
\* 400 before any provider call; a place id that does not resolve gives 400
\* with no directions request; an empty route sequence gives 404 with no call
\* of the insight generator; otherwise 200 carries the first candidate's path,
\* distance and duration and the insight; an unexpected fault gives 500.
C12_SimulateFixedOrder ==
    (op = "simulate" /\ rdone) =>
       LET req == rin.req
           env == rin.env
           wellFormed == req.method = "POST" /\ req.body = "dict" /\ ~MissingParam(req)
           resolved == env.place1.k = "ok" /\ env.place2.k = "ok"
           routed == wellFormed /\ env.client = "ok" /\ resolved /\ req.mode.t = "str"
           empty == ProviderFails(env.directions) \/ Usable(env.directions) = {}
       IN /\ req.method # "POST" =>
                (rout.status = 405 /\ rout.lookups = 0 /\ rout.outbound = <<>>)
          /\ (req.method = "POST" /\ req.body = "dict" /\ MissingParam(req)) =>
                /\ rout.status = 400
                /\ rout.lookups = 0 /\ rout.outbound = <<>> /\ rout.insight_calls = 0
          /\ (wellFormed /\ env.client = "ok" /\ ~resolved) =>
                (rout.status = 400 /\ rout.outbound = <<>> /\ rout.insight_calls = 0)
          /\ (routed /\ empty) => (rout.status = 404 /\ rout.insight_calls = 0)
          /\ (routed /\ ~empty) =>
                LET leg == FirstUsable(env.directions).legs[1] IN
                /\ rout.status = 200
                /\ rout.body.primary_route.overview_polyline
                      = FirstUsable(env.directions).polyline
                /\ rout.body.primary_route.distance
                      = (IF leg.distance.k = "ok" THEN leg.distance.value ELSE 0)
                /\ rout.body.primary_route.duration
                      = (IF leg.traffic.k = "ok" THEN leg.traffic.value
                         ELSE IF leg.duration.k = "ok" THEN leg.duration.value ELSE 0)
                /\ rout.insight_calls = 1
                /\ rout.body.ai_insights.t = "str"
          /\ (\/ req.method = "POST" /\ req.body = "list"
              \/ wellFormed /\ env.client # "ok"
              \/ wellFormed /\ env.client = "ok" /\ resolved /\ req.mode.t # "str") =>
                rout.status = 500

\* C12 witness: the first route of the provider's answer had no leg, and the
\* 200 response carries the second route's path, distance and duration.
C12_Witness ==
    /\ op = "simulate" /\ rdone
    /\ rin.env.directions = Answered(<<RouteNoLegs, RouteB>>)
    /\ rout.status = 200
    /\ rout.body.primary_route.distance = 5000
    /\ rout.body.primary_route.duration = 650
    /\ rout.lookups = 2 /\ Len(rout.outbound) = 1

\* the kind of failure of an answer of the weather provider
FailureClass(u) ==
    IF u.k = "network" THEN "Network"
    ELSE IF u.code \in {401, 403} THEN "Unauthorized"
    ELSE IF u.code >= 400 THEN "Upstream"
    ELSE "none"

\* what a response tells about the kind of an error: its status and its fixed
\* message, the text of the exception left aside
ErrorKindOf(outcome) == <<outcome.status, outcome.body.error>>

\* C13: the weather operation reports an authorization rejection, another
\* non-2xx upstream answer and a transport failure as three error kinds the
\* caller can tell apart: two upstream failures of different kinds never give
\* responses of the same kind.
C13_TypedWeatherErrors ==
    (/\ op = "weather" /\ rdone
     /\ Truthy(rin.req.lat) /\ Truthy(rin.req.lon) /\ rin.env.key # ""
     /\ FailureClass(rin.env.upstream) # "none") =>
       \A u \in UpstreamOutcomes :
          FailureClass(u) \notin {"none", FailureClass(rin.env.upstream)} =>
             ErrorKindOf(weather_post(rin.req, [rin.env EXCEPT !.upstream = u]))
                # ErrorKindOf(rout)

\* C14: no error response of optimize-route, simulate-route or weather
\* contains the text of the exception that caused it: the body carries only a
\* fixed message.
C14_NoExceptionTextInResponse ==
    (op \in {"post", "simulate", "weather"} /\ rdone /\ rout.status >= 400) =>
       rout.body.details = ""

\* C15: no initialization or increment of a counter is lost under any
\* interleaving of concurrent requests on one key: a key that is present was
\* initialized exactly once, its stored count equals the number of requests
\* admitted in its window, and no step of a request sets a live counter back.
C15_NoLostCounterUpdate ==
    [][\A k \in Keys :
          /\ windows[k] = (IF cache[k].present THEN 1 ELSE 0)
          /\ cache[k].present => cache[k].count = admitted[k]
          /\ (cache[k].present /\ cache'[k].present) =>
                /\ cache'[k].count \in {cache[k].count, cache[k].count + 1}
                /\ windows'[k] = windows[k]
          /\ cache'[k].present => cache'[k].count = admitted'[k]]_vars

\* C15 witness: two simultaneous first requests on a fresh key both found it
\* missing, one window was initialized, and both increments are in the count.
C15_Witness ==
    \E k \in Keys :
       /\ \A w \in Workers :
             sawMissing[w] /\ KeyOfWorker(w) = k /\ pc[w] = "idle" /\ resp[w] = "admit"
       /\ cache[k].present /\ windows[k] = 1
       /\ cache[k].count = NumWorkers /\ admitted[k] = NumWorkers

\* C16: a window is fixed from first touch: the expiry of a key is set to 60
\* seconds when the key is created, no step of a request (admitted or
\* rejected) changes it, only the passing of time brings it down, and the key
\* is evicted when its 60 seconds are over and not before.
C16_WindowFixedFromFirstTouch ==
    [][\A k \in Keys :
          /\ (~cache[k].present /\ cache'[k].present) => cache'[k].ttl = WindowSeconds
          /\ (cache[k].present /\ cache'[k].present) =>
                \/ cache'[k].ttl = cache[k].ttl
                \/ pc' = pc /\ cache'[k].ttl = cache[k].ttl - TickSeconds
          /\ (cache[k].present /\ ~cache'[k].present) =>
                (pc' = pc /\ cache[k].ttl <= TickSeconds)
          /\ (cache[k].present /\ pc' = pc /\ cache' # cache) =>
                (~cache'[k].present \/ cache'[k].ttl = cache[k].ttl - TickSeconds)]_vars

\* C16 witness: a request was admitted TickSeconds into a window that already
\* held an admitted request, and the key still expires 60 seconds after its
\* creation.
C16_Witness ==
    \E k \in Keys :
       /\ cache[k].present /\ cache[k].count >= 2
       /\ lastTouch[k] = TickSeconds
       /\ cache[k].ttl = WindowSeconds - TickSeconds
       /\ \E w \in Workers : KeyOfWorker(w) = k /\ resp[w] = "admit"

\* the first 16 bits of an address, as a number
LeadingBits(o) == o[1] * 256 + o[2]

\* the configured local-region networks: <<first address, prefix length>>;
\* no prefix is longer than 16 bits
LocalNetworks ==
    { <<<<154, 72, 0, 0>>, 16>>, <<<<197, 211, 0, 0>>, 16>>, <<<<105, 112, 0, 0>>, 12>> }

\* the address lies in one of the local-region networks
InLocalRegion(o) ==
    \E n \in LocalNetworks :
       LeadingBits(o) \div (2 ^ (16 - n[2])) = LeadingBits(n[1]) \div (2 ^ (16 - n[2]))

\* C17: every request is counted under exactly one tier key that its IP alone
\* determines: an IP inside a local-region network under the local key with
\* cap 50, any other valid IP under the general key with cap 100, and an IP
\* text that does not parse (also an absent one) under the general key with
\* cap 100; it is not rejected for failing to parse.
C17_OneTierKeyPerIP ==
    \A m \in metas :
       LET ip == get_client_ip(m)
           local == ParsesAsIP(ip) /\ InLocalRegion(ip.o)
           key == [tier |-> IF local THEN "zim" ELSE "global", ip |-> ip]
           cap == IF local THEN 50 ELSE 100
       IN /\ key \in Keys
          /\ \A k \in Keys \ {key} :
                ~cache[k].present /\ admitted[k] = 0 /\ rejected[k] = 0
          /\ admitted[key] <= cap
          /\ rejected[key] > 0 => admitted[key] = cap
          /\ \A w \in Workers :
                /\ resp[w] # "raise"
                /\ pc[w] # "idle" => KeyOfWorker(w) = key

\* C17 witness: the client sent no address; its requests were counted under
\* the general key, 100 were admitted and the next was answered 429.
C17_Witness ==
    /\ metas = {Meta(<<>>, Absent)}
    /\ admitted[[tier |-> "global", ip |-> Absent]] = 100
    /\ rejected[[tier |-> "global", ip |-> Absent]] > 0
    /\ cache[[tier |-> "global", ip |-> Absent]].count = 100

\* the indices of the routes of a response that have a leg
WithLeg(response) == { i \in 1..Len(response) : Len(response[i].legs) > 0 }

\* the index of the j-th route of a response that has a leg
Kept(response, j) ==
    CHOOSE i \in WithLeg(response) :
       Cardinality({ h \in WithLeg(response) : h < i }) = j - 1

\* C18: _process_routes never raises and drops exactly the routes without a
\* leg: its output holds one candidate per route with a leg, in provider
\* order, built from that route's first leg, with the leg's steps mapped one
\* to one in order; a route without a leg or with missing or unreadable fields
\* does not remove or alter the other routes.
C18_DropsExactlyLeglessRoutes ==
    (op = "process" /\ rdone) =>
       /\ ~rout.exc
       /\ Len(rout.routes) = Cardinality(WithLeg(rin.response))
       /\ \A j \in 1..Len(rout.routes) :
             LET route == rin.response[Kept(rin.response, j)]
                 leg == route.legs[1]
             IN /\ rout.routes[j].polyline = route.polyline
                /\ leg.distance.k = "ok" =>
                      rout.routes[j].distance_value = leg.distance.value
                /\ Len(rout.routes[j].steps) = Len(leg.steps)
                /\ \A i \in 1..Len(leg.steps) :
                      /\ rout.routes[j].steps[i].polyline = leg.steps[i].points
                      /\ rout.routes[j].steps[i].instruction = leg.steps[i].html
                      /\ rout.routes[j].steps[i].distance = leg.steps[i].dist
                      /\ rout.routes[j].steps[i].duration = leg.steps[i].dur

\* C19: for every kept route, duration_value is the first leg's
\* traffic-adjusted duration value when the provider supplies one, else the
\* leg's base duration value, else 0; distance_value is the leg's raw distance
\* value (0 when there is none), whatever the traffic data.
C19_DurationPrefersTraffic ==
    (op = "process" /\ rdone) =>
       \A j \in 1..Len(rout.routes) :
          LET leg == rin.response[Kept(rin.response, j)].legs[1] IN
          /\ rout.routes[j].duration_value =
                (IF leg.traffic.k = "ok" THEN leg.traffic.value
                 ELSE IF leg.duration.k = "ok" THEN leg.duration.value
                 ELSE 0)
          /\ rout.routes[j].distance_value =
                (IF leg.distance.k = "ok" THEN leg.distance.value ELSE 0)

\* C19 witness: a leg with traffic duration 650 and base duration 700 gave
\* duration_value 650, and a leg with neither gave 0.
C19_Witness ==
    /\ op = "process" /\ rdone
    /\ rin.response = <<RouteB, RouteBare>>
    /\ Len(rout.routes) = 2
    /\ rout.routes[1].duration_value = 650 /\ rout.routes[1].distance_value = 5000
    /\ rout.routes[2].duration_value = 0

\* C20: when the generator's text parses as structured data, the result
\* carries all required keys with defaults filled in: a missing alternatives,
\* tips or kombi_stops is an empty list, a missing weather_impact an empty
\* string, a missing safety_rating stays absent, and keys of the response keep
\* their values.
C20_StructuredHasDefaults ==
    (/\ op = "gemini" /\ rdone
     /\ ~BuildPromptRaises(rin.route)
     /\ rin.ai.call.k = "ok"
     /\ ~json_loads(rin.ai.call.text).exc) =>
       LET parsed == json_loads(rin.ai.call.text).value.d IN
       /\ rout.value.t = "dict"
       /\ {"alternatives", "tips", "kombi_stops", "weather_impact"}
             \subseteq DOMAIN rout.value.d
       /\ \A key \in {"alternatives", "tips", "kombi_stops"} :
             rout.value.d[key] =
                (IF key \in DOMAIN parsed THEN parsed[key] ELSE PyList(<<>>))
       /\ rout.value.d.weather_impact =
             (IF "weather_impact" \in DOMAIN parsed THEN parsed.weather_impact
              ELSE PyText(GenText(0, "")))
       /\ ("safety_rating" \in DOMAIN rout.value.d) <=> ("safety_rating" \in DOMAIN parsed)

\* C21: optimize-route hands a record to persistence exactly once for a
\* request answered 200 and never for one answered 400, 404 or 500; a failure
\* of the insight generator does not prevent persistence (the record carries
\* the fallback text); the saved distance, duration and path are those of the
\* primary route of the response.
C21_PersistsOncePer200 ==
    (op = "post" /\ rdone) =>
       /\ rout.status = 200 => Len(rout.saved) = 1
       /\ rout.status \in {400, 404, 500} => rout.saved = <<>>
       /\ (/\ is_valid(rin.data) /\ rin.env.db = "ok"
           /\ ~ProviderFails(rin.env.directions)
           /\ Usable(rin.env.directions) # {}
           /\ CallFailed(rin.env.ai)) =>
             /\ rout.status = 200
             /\ Len(rout.saved) = 1
             /\ rout.saved[1].ai_insights = PyText(GenText(0, FallbackInsight))
       /\ rout.status = 200 =>
             /\ rout.saved[1].distance = rout.body.primary_route.distance_value
             /\ rout.saved[1].duration = rout.body.primary_route.duration_value
             /\ rout.saved[1].polyline = rout.body.primary_route.polyline
             /\ rout.saved[1].ai_insights = rout.body.ai_insights

\* the address the rate-limit key of a request is made of: the first entry of
\* X-Forwarded-For, without surrounding whitespace, when the header is there,
\* REMOTE_ADDR otherwise
KeyAddress(m) ==
    IF m.xff # <<>> THEN [pad |-> 0, o |-> m.xff[1].o] ELSE m.remote

\* the keys of the requests of this run
RunKeys == { k \in Keys : \E m \in metas : k.ip = KeyAddress(m) }

\* C22: the rate-limit key of a request is made of the first X-Forwarded-For
\* entry when the header is present and non-empty, of REMOTE_ADDR otherwise;
\* requests of one peer with different first entries are counted in separate
\* windows, and a step of a request changes no counter but that of its key.
C22_KeyFromForwardedFor ==
    [][/\ \A w \in Workers :
             pc'[w] # "idle" => KeyOfWorker(w)'.ip = KeyAddress(wmeta'[w])
       /\ \A k \in Keys :
             (cache'[k] # cache[k] \/ admitted'[k] # admitted[k]
                 \/ rejected'[k] # rejected[k]) =>
                /\ \E w \in Workers :
                      /\ pc'[w] # pc[w] \/ (pc'[w] = "idle" /\ resp'[w] = "429")
                      /\ k.ip = KeyAddress(wmeta'[w])
                /\ \A j \in Keys \ {k} :
                      /\ cache'[j] = cache[j]
                      /\ admitted'[j] = admitted[j] /\ rejected'[j] = rejected[j]
       /\ \A k \in Keys :
             /\ cache'[k].present => (k \in RunKeys /\ cache'[k].count = admitted'[k])
             /\ admitted'[k] <= (IF k.tier = "zim" THEN 50 ELSE 100)]_vars

\* C22 witness: one peer sent requests with two different first entries; the
\* window of the first is full and has rejected a request, the window of the
\* second holds fewer requests and still admits.
C22_Witness ==
    /\ metas = {Meta(<<ZimB, Padded(World.o)>>, World), Meta(<<NearZim, ZimA>>, World)}
    /\ cache[RateKey(ZimB)].count = 50 /\ rejected[RateKey(ZimB)] > 0
    /\ cache[RateKey(NearZim)].present /\ cache[RateKey(NearZim)].count = 3
    /\ ~cache[RateKey(World)].present
    /\ \E w \in Workers : wmeta[w].xff # <<>> /\ KeyOfWorker(w) = RateKey(NearZim)
                            /\ resp[w] = "admit"

====
